---- MODULE Spec2Model ----
(***************************************************************************)
(* A model of map646's tun interface core (tunif.c): interface creation    *)
(* and destruction, the address-family framing codec, netmask derivation   *)
(* and route injection, for the two build variants of the file             *)
(* (__linux__ defined: platform "A"; otherwise the BSD code: platform "B").*)
(***************************************************************************)
EXTENDS Integers, Sequences, FiniteSets, TLC

VARIABLES
  platform,    \* build variant: "A" = #if defined(__linux__), "B" = #else
  ndebug,      \* build variant: TRUE when assert() is compiled out (NDEBUG)
  proc,        \* "running", or how the process ended: "exited" (err/errx),
               \* "aborted" (assert), "killed" (SIGSEGV)
  names,       \* the name buffers: "global" is the exported tun_if_name[],
               \* "local" a buffer owned by the caller
  ifaces,      \* kernel state: the tun interfaces that exist
  fds,         \* descriptors the core opened and that are still open, by kind
  seq,         \* static int seq of tun_route_add
  written,     \* rtm_seq of every message written to a routing socket
  buf,         \* the 4 header bytes of the packet buffer given to the codec
  last         \* what the last call did: its arguments, steps and result

vars == <<platform, ndebug, proc, names, ifaces, fds, seq, written, buf, last>>

(***************************************************************************)
(* Bounds of the model.                                                    *)
(***************************************************************************)
MaxAf == 30        \* tags 0..MaxAf are given to the codec and to route_add
MaxIf == 2         \* interface names the kernel can assign: tun0..tun(MaxIf-1)
MaxCalls == 2      \* routing messages written in one run

(***************************************************************************)
(* Constants of the platform headers the code uses.                        *)
(***************************************************************************)
AF_INET == 2
AF_INET6_LINUX == 10
AF_INET6_BSD == 28
AF_LINK == 18
ETH_P_IP == 2048        \* 0x0800
ETH_P_IPV6 == 34525     \* 0x86DD
AF_UNKNOWN == 255       \* uint32_t af = 255; /* XXX */

AF_INET6(plat) == IF plat = "A" THEN AF_INET6_LINUX ELSE AF_INET6_BSD

Platforms == {"A", "B"}

(***************************************************************************)
(* A uint32_t is the pair <<high 16 bits, low 16 bits>>, so that all 2^32  *)
(* values are there; u32(n) is the uint32_t of a small number n.           *)
(***************************************************************************)
u32(n) == <<n \div 65536, n % 65536>>

(***************************************************************************)
(* Byte order conversions, as the bytes they leave in memory.              *)
(***************************************************************************)
htons(x) == <<(x \div 256) % 256, x % 256>>
ntohs(b) == b[1] * 256 + b[2]
htonl(x) == <<x[1] \div 256, x[1] % 256, x[2] \div 256, x[2] % 256>>
ntohl(b) == <<b[1] * 256 + b[2], b[3] * 256 + b[4]>>

(***************************************************************************)
(* tun_get_af: the tag decoded from the 4 header bytes b, and whether      *)
(* warnx() was called.                                                     *)
(***************************************************************************)
get_af(plat, b) ==
  IF plat = "A"
  THEN LET ether_type == ntohs(<<b[3], b[4]>>)    \* pi->proto
       IN  CASE ether_type = ETH_P_IP   -> [af |-> u32(AF_INET), warned |-> FALSE]
             [] ether_type = ETH_P_IPV6 -> [af |-> u32(AF_INET6(plat)), warned |-> FALSE]
             [] OTHER                   -> [af |-> u32(AF_UNKNOWN), warned |-> TRUE]
  ELSE [af |-> ntohl(b), warned |-> FALSE]

(***************************************************************************)
(* tun_set_af: the return value and the header bytes left in the buffer.   *)
(***************************************************************************)
set_af_swapped(plat, b, af) ==
  IF plat = "A"
  THEN IF af \in {u32(AF_INET), u32(AF_INET6(plat))}
       THEN LET ether_type == IF af = u32(AF_INET) THEN ETH_P_IP ELSE ETH_P_IPV6
            IN  [ret |-> 0, warned |-> FALSE,
                 buf |-> <<0, 0, htons(ether_type)[2], htons(ether_type)[1]>>]
       ELSE [ret |-> -1, warned |-> TRUE, buf |-> b]
  ELSE [ret |-> 0, warned |-> FALSE,
        buf |-> <<htonl(af)[4], htonl(af)[3], htonl(af)[2], htonl(af)[1]>>]

set_af(plat, b, af) ==
  IF plat = "A"
  THEN IF af \in {u32(AF_INET), u32(AF_INET6(plat))}
       THEN LET ether_type == IF af = u32(AF_INET) THEN ETH_P_IP ELSE ETH_P_IPV6
            IN  [ret |-> 0, warned |-> FALSE,
                 buf |-> <<0, 0>> \o htons(ether_type)]   \* flags, proto
       ELSE [ret |-> -1, warned |-> TRUE, buf |-> b]
  ELSE [ret |-> 0, warned |-> FALSE, buf |-> htonl(af)]

(***************************************************************************)
(* tun_make_netmask(mask, af, prefix_len).  The result is how the call     *)
(* ended ("ok": returned 0; "aborted": an assert() failed; "exited":       *)
(* errx()), and, when it returned, the address bytes it left at p, the     *)
(* sa_family and sa_len it stored.  With assert() compiled out and a       *)
(* negative prefix_len, q is negative and the store at p + q lands on the  *)
(* byte before the address field ("stray").                                *)
(***************************************************************************)
SizeofSockaddrIn == 16
SizeofSockaddrIn6 == 28

tun_make_netmask_noassert(plat, nd, af, prefix_len) ==
  IF af \notin {AF_INET, AF_INET6(plat)}
  THEN [outcome |-> "exited", msg |-> "unsupported address family"]
  ELSE
    LET max    == IF af = AF_INET THEN 32 ELSE 128
        sa_len == IF af = AF_INET THEN SizeofSockaddrIn ELSE SizeofSockaddrIn6
        q      == IF prefix_len >= 0 THEN prefix_len \div 8
                  ELSE -((-prefix_len + 7) \div 8)           \* prefix_len >> 3
        r      == prefix_len - 8 * q                         \* prefix_len & 7
        partial == (65280 \div (2 ^ r)) % 256                \* (0xff00 >> r) & 0xff
    IN  IF max < prefix_len
        THEN [outcome |-> "exited", msg |-> "invalid prefix length"]
        ELSE [outcome |-> "ok", msg |-> "",
              family |-> af,
              sa_len |-> IF plat = "B" THEN sa_len ELSE 0,
              addr   |-> [i \in 1..(max \div 8) |->
                            IF i <= q THEN 255
                            ELSE IF r > 0 /\ i = q + 1 THEN partial
                            ELSE 0],
              stray  |-> IF r > 0 /\ q < 0 THEN partial ELSE -1]

tun_make_netmask(plat, nd, af, prefix_len) ==
  IF ~nd /\ ~(prefix_len > 0)
  THEN [outcome |-> "aborted", msg |-> "assert(prefix_len > 0)"]
  ELSE tun_make_netmask_noassert(plat, nd, af, prefix_len)

(***************************************************************************)
(* The state common to every specification: a fresh process of either      *)
(* build, the exported name buffer zero-initialised, no interface.         *)
(***************************************************************************)
Buffers == {"global", "local"}
NoCall == [op |-> "none"]

InitBase(NDebugs) ==
  /\ platform \in Platforms
  /\ ndebug \in NDebugs
  /\ proc = "running"
  /\ names = [b \in Buffers |-> 0]
  /\ ifaces = {}
  /\ fds = [udp |-> 0, route |-> 0, tun |-> 0]
  /\ seq = 0
  /\ written = <<>>
  /\ last = NoCall

(***************************************************************************)
(* The codec.  The header bytes of the caller's buffer are arbitrary       *)
(* before the first call.                                                  *)
(***************************************************************************)
HighBytes == {0, 255}
LowBytes == {0, AF_INET, 8, AF_INET6_BSD, 134, 221, 255}
Headers == {<<a, b, c, d>> : a \in HighBytes, b \in HighBytes,
                             c \in LowBytes, d \in LowBytes}
AfInputs == {u32(n) : n \in 0..MaxAf}
              \cup {u32(AF_UNKNOWN), u32(256 + AF_INET), <<65535, 65535>>}

InitCodec ==
  /\ InitBase({FALSE})        \* the codec has no assert()
  /\ buf \in Headers

tun_get_af ==
  /\ proc = "running"
  /\ LET res == get_af(platform, buf)
     IN  last' = [op |-> "tun_get_af", before |-> buf, ret |-> res.af,
                  warned |-> res.warned]
  /\ UNCHANGED <<platform, ndebug, proc, names, ifaces, fds, seq, written, buf>>

tun_set_af(af) ==
  /\ proc = "running"
  /\ LET res == set_af(platform, buf, af)
     IN  /\ buf' = res.buf
         /\ last' = [op |-> "tun_set_af", af |-> af, before |-> buf,
                     ret |-> res.ret, warned |-> res.warned]
  /\ UNCHANGED <<platform, ndebug, proc, names, ifaces, fds, seq, written>>

NextCodec ==
  \/ tun_get_af
  \/ \E af \in AfInputs : tun_set_af(af)

SpecCodec == InitCodec /\ [][NextCodec]_vars

(***************************************************************************)
(* Netmask derivation on its own: one call per run, for every family and   *)
(* prefix length.                                                          *)
(***************************************************************************)
MaskAfs == {AF_INET, AF_INET6_LINUX, AF_INET6_BSD, AF_LINK}
MaskPrefixes == (-1)..129

InitMask ==
  /\ InitBase(BOOLEAN)
  /\ buf = <<0, 0, 0, 0>>

make_netmask_call(af, prefix_len) ==
  /\ proc = "running"
  /\ last.op = "none"
  /\ LET res == tun_make_netmask(platform, ndebug, af, prefix_len)
     IN  /\ last' = [op |-> "tun_make_netmask", af |-> af,
                     prefix_len |-> prefix_len, res |-> res]
         /\ proc' = IF res.outcome = "ok" THEN "running" ELSE res.outcome
  /\ UNCHANGED <<platform, ndebug, names, ifaces, fds, seq, written, buf>>

NextMask == \E af \in MaskAfs, p \in MaskPrefixes : make_netmask_call(af, p)

SpecMask == InitMask /\ [][NextMask]_vars

(***************************************************************************)
(* Interface names.  0 is a name without a unit (the empty string of the   *)
(* zero-initialised global, or a template such as "tun"): the kernel picks *)
(* the unit.  k in 1..MaxIf is the full name "tun<k-1>".                   *)
(***************************************************************************)
IfNames == 1..MaxIf
ReqNames == 0..MaxIf

\* Descriptors: open and close of one descriptor of a kind.
OpenFd(f, kind) == [f EXCEPT ![kind] = @ + 1]
CloseFd(f, kind) == [f EXCEPT ![kind] = @ - 1]

\* On Linux the kernel removes the tun interfaces of a process that ends.
IfacesAtEnd(plat, ifs) == IF plat = "A" THEN {} ELSE ifs

(***************************************************************************)
(* tun_alloc(tun_if_name).  arg is the buffer the caller passes (never     *)
(* NULL: assert), req the name it holds, fail the system call that fails   *)
(* in this call ("none": all succeed; "strcat": the strcat() onto the      *)
(* uninitialised tun_dev_name[] of the BSD code runs off the buffer),      *)
(* kname the unit the kernel picks for a name without one.  nms holds req  *)
(* in the buffer arg on entry.                                             *)
(* The result: how the call ended, the steps taken, the buffers, the       *)
(* kernel's interfaces and the open descriptors it leaves.                 *)
(***************************************************************************)
AllocFails == {"none", "socket", "create", "strcat", "open", "mode", "head", "up"}

alloc(plat, nms, ifs, f, arg, req, fail, kname) ==
  LET assigned == IF req # 0 THEN req ELSE kname
      gone(out, steps, nms1, ifs1, f1) ==
        [outcome |-> out, steps |-> steps, names |-> nms1, ifaces |-> ifs1,
         fds |-> f1, assigned |-> 0]
      f_udp == OpenFd(f, "udp")
      f_tun == OpenFd(f_udp, "tun")
      nms1  == [nms EXCEPT ![arg] = assigned]        \* strncpy(tun_if_name, ifr.ifr_name)
      ifs1  == ifs \cup {assigned}
      creates == fail # "create" /\ assigned \notin ifs
  IN
  IF fail = "socket"
  THEN gone("exited", <<"socket:-1", "err">>, nms, ifs, f)
  ELSE IF plat = "A"
  THEN
    IF fail = "open"
    THEN gone("exited", <<"socket", "open:-1", "err">>, nms, ifs, f_udp)
    ELSE IF ~creates
    THEN gone("exited", <<"socket", "open", "TUNSETIFF:-1", "close(tun_fd)", "err">>,
              nms, ifs, CloseFd(f_tun, "tun"))
    ELSE IF fail = "up"
    THEN gone("exited", <<"socket", "open", "TUNSETIFF", "strncpy",
                          "SIOCSIFFLAGS:-1", "err">>, nms1, ifs1, f_tun)
    ELSE [outcome |-> "returned",
          steps |-> <<"socket", "open", "TUNSETIFF", "strncpy", "SIOCSIFFLAGS",
                      "close(udp_fd)">>,
          names |-> nms1, ifaces |-> ifs1, fds |-> CloseFd(f_tun, "udp"),
          assigned |-> assigned]
  ELSE
    IF ~creates
    THEN gone("exited", <<"socket", "SIOCIFCREATE2:-1", "err">>, nms, ifs, f_udp)
    ELSE IF fail = "strcat"
    THEN gone("killed", <<"socket", "SIOCIFCREATE2", "strncpy", "strcat">>,
              nms1, ifs1, f_udp)
    ELSE IF fail = "open"
    THEN gone("exited", <<"socket", "SIOCIFCREATE2", "strncpy", "strcat", "open:-1",
                          "err">>, nms1, ifs1, f_udp)
    ELSE IF fail = "mode"
    THEN gone("exited", <<"socket", "SIOCIFCREATE2", "strncpy", "strcat", "open",
                          "TUNSIFMODE:-1", "err">>, nms1, ifs1, f_tun)
    ELSE IF fail = "head"
    THEN gone("exited", <<"socket", "SIOCIFCREATE2", "strncpy", "strcat", "open",
                          "TUNSIFMODE", "TUNSIFHEAD:-1", "err">>, nms1, ifs1, f_tun)
    ELSE IF fail = "up"
    THEN gone("exited", <<"socket", "SIOCIFCREATE2", "strncpy", "strcat", "open",
                          "TUNSIFMODE", "TUNSIFHEAD", "SIOCSIFFLAGS:-1", "err">>,
              nms1, ifs1, f_tun)
    ELSE [outcome |-> "returned",
          steps |-> <<"socket", "SIOCIFCREATE2", "strncpy", "strcat", "open",
                      "TUNSIFMODE", "TUNSIFHEAD", "SIOCSIFFLAGS", "close(udp_fd)">>,
          names |-> nms1, ifaces |-> ifs1, fds |-> CloseFd(f_tun, "udp"),
          assigned |-> assigned]

tun_alloc(arg, req, fail, kname) ==
  /\ proc = "running"
  /\ fds.tun < MaxIf
  /\ \E res \in {alloc(platform, [names EXCEPT ![arg] = req], ifaces, fds,
                      arg, req, fail, kname)} :
         /\ proc' = IF res.outcome = "returned" THEN "running" ELSE res.outcome
         /\ names' = res.names
         /\ ifaces' = IF res.outcome = "returned" THEN res.ifaces
                      ELSE IfacesAtEnd(platform, res.ifaces)
         /\ fds' = res.fds
         /\ last' = [op |-> "tun_alloc", arg |-> arg, req |-> req,
                     outcome |-> res.outcome, steps |-> res.steps,
                     assigned |-> res.assigned, tun0 |-> fds.tun]
  /\ UNCHANGED <<platform, ndebug, seq, written, buf>>

(***************************************************************************)
(* tun_dealloc(tun_if_name): the BSD code only.  name is the string the    *)
(* caller passes, fail the system call that fails.                         *)
(***************************************************************************)
DeallocFails == {"none", "socket", "destroy"}

dealloc_leak(ifs, f, name, fail) ==
  LET f_udp == OpenFd(f, "udp")
  IN  IF fail = "socket"
      THEN [ret |-> -1, steps |-> <<"socket:-1", "warn">>, ifaces |-> ifs, fds |-> f]
      ELSE IF fail = "destroy" \/ name \notin ifs
      THEN [ret |-> -1, steps |-> <<"socket", "SIOCIFDESTROY:-1", "warn">>,
            ifaces |-> ifs, fds |-> f_udp]
      ELSE [ret |-> 0, steps |-> <<"socket", "SIOCIFDESTROY", "close(udp_fd)">>,
            ifaces |-> ifs \ {name}, fds |-> CloseFd(f_udp, "udp")]

dealloc(ifs, f, name, fail) ==
  LET f_udp == OpenFd(f, "udp")
  IN  IF fail = "socket"
      THEN [ret |-> -1, steps |-> <<"socket:-1", "warn">>, ifaces |-> ifs, fds |-> f]
      ELSE IF fail = "destroy" \/ name \notin ifs
      THEN [ret |-> -1,
            steps |-> <<"socket", "SIOCIFDESTROY:-1", "warn", "close(udp_fd)">>,
            ifaces |-> ifs, fds |-> CloseFd(f_udp, "udp")]
      ELSE [ret |-> 0, steps |-> <<"socket", "SIOCIFDESTROY", "close(udp_fd)">>,
            ifaces |-> ifs \ {name}, fds |-> CloseFd(f_udp, "udp")]

tun_dealloc(name, fail) ==
  /\ proc = "running"
  /\ platform = "B"
  /\ \E res \in {dealloc(ifaces, fds, name, fail)} :
         /\ ifaces' = res.ifaces
         /\ fds' = res.fds
         /\ last' = [op |-> "tun_dealloc", name |-> name, outcome |-> "returned",
                     ret |-> res.ret, steps |-> res.steps, tun0 |-> fds.tun]
  /\ UNCHANGED <<platform, ndebug, proc, names, seq, written, buf>>

(***************************************************************************)
(* tun_route_add(af, addr, prefix_len).                                    *)
(***************************************************************************)
SizeofLong == 8
SizeofRtMsghdr == 152
SizeofSockaddrDl == 54
LO0 == MaxIf + 1        \* the name "lo0"

\* SA_SIZE(sa) of <net/route.h>, from sa_len.
SA_SIZE(sa_len) ==
  IF sa_len = 0 THEN SizeofLong
  ELSE SizeofLong * ((sa_len + SizeofLong - 1) \div SizeofLong)

\* The list getifaddrs() returns: for lo0 and then for every tun interface
\* its link-layer address followed by a network-layer address.
RECURSIVE IfAddrsFrom(_, _)
IfAddrsFrom(k, ifs) ==
  IF k > MaxIf THEN <<>>
  ELSE (IF k \in ifs
        THEN <<[ifa_name |-> k, sa_family |-> AF_LINK],
               [ifa_name |-> k, sa_family |-> AF_INET6_BSD]>>
        ELSE <<>>) \o IfAddrsFrom(k + 1, ifs)

getifaddrs(ifs) ==
  <<[ifa_name |-> LO0, sa_family |-> AF_LINK],
    [ifa_name |-> LO0, sa_family |-> AF_INET]>> \o IfAddrsFrom(1, ifs)

\* The loop over the list: sdlp is the last AF_LINK entry whose name equals
\* the global tun_if_name; 0 stands for NULL.
RECURSIVE FindLinkAddr(_, _, _, _)
FindLinkAddr(ifap, i, gname, sdlp) ==
  IF i > Len(ifap) THEN sdlp
  ELSE IF ifap[i].sa_family # AF_LINK THEN FindLinkAddr(ifap, i + 1, gname, sdlp)
  ELSE IF ifap[i].ifa_name # gname THEN FindLinkAddr(ifap, i + 1, gname, sdlp)
  ELSE FindLinkAddr(ifap, i + 1, gname, i)

\* NEXTADDR for the three blocks, in the order of the code.
Blocks_mask_first(rtm_addrs, so_dst, so_gate, so_mask) ==
  (IF "RTA_DST" \in rtm_addrs THEN <<[rta |-> "RTA_DST", sa |-> so_dst]>> ELSE <<>>)
  \o (IF "RTA_NETMASK" \in rtm_addrs
      THEN <<[rta |-> "RTA_NETMASK", sa |-> so_mask]>> ELSE <<>>)
  \o (IF "RTA_GATEWAY" \in rtm_addrs
      THEN <<[rta |-> "RTA_GATEWAY", sa |-> so_gate]>> ELSE <<>>)

Blocks(rtm_addrs, so_dst, so_gate, so_mask) ==
  (IF "RTA_DST" \in rtm_addrs THEN <<[rta |-> "RTA_DST", sa |-> so_dst]>> ELSE <<>>)
  \o (IF "RTA_GATEWAY" \in rtm_addrs
      THEN <<[rta |-> "RTA_GATEWAY", sa |-> so_gate]>> ELSE <<>>)
  \o (IF "RTA_NETMASK" \in rtm_addrs
      THEN <<[rta |-> "RTA_NETMASK", sa |-> so_mask]>> ELSE <<>>)

RECURSIVE BlocksSize(_)
BlocksSize(bl) ==
  IF bl = <<>> THEN 0 ELSE SA_SIZE(Head(bl).sa.sa_len) + BlocksSize(Tail(bl))

\* m_rtmsg.m_rtm.rtm_seq = ++seq: the value seq takes, which the message carries.
rtm_seq_same(sq) == sq

rtm_seq(sq) == sq + 1

NoMsg == [rtm_type |-> "none"]

(***************************************************************************)
(* env is what the system does in this call: env.scen is "full" (every     *)
(* call succeeds, write() takes the whole message), "short" (write() takes *)
(* one byte less), "write" (write() returns -1), "socket" (no routing      *)
(* socket), "getifaddrs" (it fails).  env.ub is what reading through a     *)
(* NULL pointer does in this build: "segv" (the process is killed),        *)
(* "check" (the read yields garbage, the code goes on), "elided" (as       *)
(* "check", and the compiler has dropped the NULL test that follows the    *)
(* read); env.glen is the sa_len found in an uninitialised so_gate.        *)
(* In the result, looked says that the loop over the interface addresses   *)
(* ran, write_len is what write() returned (0 when it was not called).     *)
(***************************************************************************)
RouteScens == {"full", "short", "write", "socket", "getifaddrs"}
GarbageLens == {0, 255}
RouteEnvs ==
  {[scen |-> s, ub |-> "segv", glen |-> 0] : s \in RouteScens}
    \cup {[scen |-> s, ub |-> "elided", glen |-> g] : s \in RouteScens, g \in GarbageLens}
    \cup {[scen |-> "full", ub |-> "check", glen |-> 0]}

route_add(plat, nd, gname, ifs, sq, f, af, addr, prefix_len, env) ==
  LET end(out, ret, steps, sq1, f1, looked, msg, wl) ==
        [outcome |-> out, ret |-> ret, steps |-> steps, seq |-> sq1, fds |-> f1,
         looked |-> looked, msg |-> msg, write_len |-> wl, wrote |-> wl > 0]
      inet   == af = AF_INET
      max    == IF inet THEN 32 ELSE 128
      sa_len == IF inet THEN SizeofSockaddrIn ELSE SizeofSockaddrIn6
      so_dst == [sa_len |-> sa_len, sa_family |-> af, addr |-> addr]
      masked == prefix_len < max
      m      == tun_make_netmask(plat, nd, af, prefix_len)
      so_mask == [sa_len |-> m.sa_len, sa_family |-> m.family, addr |-> m.addr,
                  stray |-> m.stray]
      s_dst  == <<"so_dst">> \o (IF masked THEN <<"tun_make_netmask">> ELSE <<>>)
      ifap   == getifaddrs(ifs)
      sdlp   == FindLinkAddr(ifap, 1, gname, 0)
      so_gate == IF sdlp = 0
                 THEN [sa_len |-> env.glen, sa_family |-> "garbage", name |-> "garbage"]
                 ELSE [sa_len |-> SizeofSockaddrDl, sa_family |-> AF_LINK,
                       name |-> ifap[sdlp].ifa_name]
      s_gate == s_dst \o <<"getifaddrs", "memcpy(so_gate)", "freeifaddrs">>
      rtm_addrs == {"RTA_DST", "RTA_GATEWAY"}
                     \cup (IF masked THEN {"RTA_NETMASK"} ELSE {})
      rtm_flags == {"RTF_UP", "RTF_STATIC"}
                     \cup (IF masked THEN {} ELSE {"RTF_HOST"})
      blocks == Blocks(rtm_addrs, so_dst, so_gate, so_mask)
      msg    == [rtm_type |-> "RTM_ADD", rtm_flags |-> rtm_flags,
                 rtm_version |-> "RTM_VERSION", rtm_seq |-> rtm_seq(sq),
                 rtm_addrs |-> rtm_addrs, blocks |-> blocks,
                 rtm_msglen |-> SizeofRtMsghdr + BlocksSize(blocks)]
      s_msg  == s_gate \o <<"++seq", "socket">>
      f_rt   == OpenFd(f, "route")
  IN
  IF ~nd /\ prefix_len < 0
  THEN end("aborted", 0, <<"assert">>, sq, f, FALSE, NoMsg, 0)
  ELSE IF plat = "A"
  THEN end("returned", 0, <<"warnx">>, sq, f, FALSE, NoMsg, 0)
  ELSE IF af \notin {AF_INET, AF_INET6(plat)}
  THEN end("returned", -1, <<"warnx">>, sq, f, FALSE, NoMsg, 0)
  ELSE IF masked /\ m.outcome # "ok"
  THEN end(m.outcome, 0, s_dst, sq, f, FALSE, NoMsg, 0)
  ELSE IF env.scen = "getifaddrs"
  THEN end("exited", 0, s_dst \o <<"getifaddrs:-1", "err">>, sq, f, FALSE,
           NoMsg, 0)
  ELSE IF sdlp = 0 /\ env.ub = "segv"
  THEN end("killed", 0, s_dst \o <<"getifaddrs", "memcpy(so_gate)">>, sq, f, TRUE,
           NoMsg, 0)
  ELSE IF sdlp = 0 /\ env.ub = "check"
  THEN end("exited", 0, s_gate \o <<"errx">>, sq, f, TRUE, NoMsg, 0)
  ELSE IF env.scen = "socket"
  THEN end("exited", 0, s_gate \o <<"++seq", "socket:-1", "err">>, rtm_seq(sq), f, TRUE,
           msg, 0)
  ELSE IF env.scen = "write"
  THEN end("exited", 0, s_msg \o <<"write:-1", "err">>, rtm_seq(sq), f_rt, TRUE, msg, -1)
  ELSE end("returned", 0, s_msg \o <<"write", "close(route_fd)">>, rtm_seq(sq),
           CloseFd(f_rt, "route"), TRUE, msg,
           IF env.scen = "short" THEN msg.rtm_msglen - 1 ELSE msg.rtm_msglen)

tun_route_add(af, addr, prefix_len, env) ==
  /\ proc = "running"
  /\ seq < MaxCalls
  /\ \E res \in {route_add(platform, ndebug, names["global"], ifaces, seq, fds,
                          af, addr, prefix_len, env)} :
         /\ proc' = IF res.outcome = "returned" THEN "running" ELSE res.outcome
         /\ seq' = res.seq
         /\ fds' = res.fds
         /\ written' = IF res.wrote THEN Append(written, res.msg.rtm_seq) ELSE written
         /\ ifaces' = IF res.outcome = "returned" THEN ifaces
                      ELSE IfacesAtEnd(platform, ifaces)
         /\ last' = [op |-> "tun_route_add", af |-> af, addr |-> addr,
                     prefix_len |-> prefix_len, outcome |-> res.outcome,
                     ret |-> res.ret, steps |-> res.steps,
                     sdlp |-> IF res.looked
                              THEN FindLinkAddr(getifaddrs(ifaces), 1, names["global"], 0)
                              ELSE 0,
                     looked |-> res.looked,
                     msg |-> res.msg, write_len |-> res.write_len,
                     seq0 |-> seq, written0 |-> Len(written), tun0 |-> fds.tun]
  /\ UNCHANGED <<platform, ndebug, names, buf>>

(***************************************************************************)
(* The core as a whole: any sequence of calls, with any arguments.         *)
(***************************************************************************)
RouteAfs == {AF_INET, AF_INET6_LINUX, AF_INET6_BSD, AF_LINK}
AddrArgs == {"addr"}         \* the caller's address bytes (never NULL: assert)
MaxPrefix(af) == IF af = AF_INET THEN 32 ELSE 128
SomePrefixes(af) == {-1, 0, 20, MaxPrefix(af)}
AllPrefixes(af) == (-1)..(MaxPrefix(af) + 1)

\* The environments that make a difference to a call with these arguments:
\* a call that ends before its first system call has one, and what a read
\* through NULL does matters only when sdlp stays NULL.
EnvsFor(af, p) ==
  IF platform = "A" \/ af \notin {AF_INET, AF_INET6(platform)}
     \/ (~ndebug /\ p <= 0)
  THEN {[scen |-> "full", ub |-> "segv", glen |-> 0]}
  ELSE IF FindLinkAddr(getifaddrs(ifaces), 1, names["global"], 0) # 0
  THEN {e \in RouteEnvs : e.ub = "segv"}
  ELSE RouteEnvs

\* The failures the platform's code can meet, and the kernel's choices that
\* make a difference.
AllocFailsFor(plat) ==
  IF plat = "A" THEN AllocFails \ {"strcat", "mode", "head"} ELSE AllocFails
KNamesFor(req) == IF req = 0 THEN IfNames ELSE {1}

Init ==
  /\ InitBase(BOOLEAN)
  /\ buf = <<0, 0, 0, 0>>

AllocStep(Args) ==
  \E arg \in Args, req \in ReqNames, fail \in AllocFailsFor(platform) :
    \E kname \in KNamesFor(req) : tun_alloc(arg, req, fail, kname)

DeallocStep ==
  \E name \in ReqNames, fail \in DeallocFails : tun_dealloc(name, fail)

RouteStep(every) ==
  \E af \in RouteAfs, addr \in AddrArgs :
    \E p \in (IF every THEN AllPrefixes(af) ELSE SomePrefixes(af)) :
      \E env \in EnvsFor(af, p) : tun_route_add(af, addr, p, env)

Next ==
  \/ AllocStep(Buffers)
  \/ DeallocStep
  \/ RouteStep(FALSE)

Spec == Init /\ [][Next]_vars

(***************************************************************************)
(* One route through a created interface: the caller passes the exported   *)
(* buffer to tun_alloc, as map646 does, and then adds one route, of any    *)
(* prefix length.                                                          *)
(***************************************************************************)
NextRoute ==
  \/ AllocStep({"global"})
  \/ (last.op # "tun_route_add" /\ RouteStep(TRUE))

SpecRoute == Init /\ [][NextRoute]_vars

(***************************************************************************)
(* Claims about the codec (checked under SpecCodec).                       *)
(***************************************************************************)
Supported == {u32(AF_INET), u32(AF_INET6(platform))}

\* C1: after tun_set_af(buffer, T) for a supported tag T, whatever the buffer
\* held before, tun_get_af(buffer) returns T, on both platforms.
C1_RoundTrip ==
  (last.op = "tun_set_af" /\ last.af \in Supported)
    => /\ last.ret = 0
       /\ get_af(platform, buf).af = last.af

C1_Witness ==
  /\ last.op = "tun_set_af"
  /\ last.af = u32(AF_INET6(platform))
  /\ last.before = <<255, 255, 255, 255>>
  /\ get_af(platform, buf).af = u32(AF_INET6(platform))

\* C2: tun_set_af fails (returns -1) for every tag other than IPv4 and IPv6,
\* on both platforms, leaving the header bytes unchanged, and returns
\* success only for IPv4 and IPv6.
C2_UnsupportedFails ==
  last.op = "tun_set_af"
    => /\ (last.af \notin Supported => last.ret = -1 /\ buf = last.before)
       /\ (last.ret = 0 => last.af \in Supported)

\* C3: tun_get_af on a header whose family value is neither IPv4 nor IPv6
\* returns the sentinel 255 and the process goes on, on both platforms; so
\* the result is always IPv4, IPv6 or the sentinel.
HeaderFamilyKnown(plat, b) ==
  IF plat = "A"
  THEN <<b[3], b[4]>> \in {<<8, 0>>, <<134, 221>>}
  ELSE b \in {<<0, 0, 0, AF_INET>>, <<0, 0, 0, AF_INET6_BSD>>}

C3_UnknownIsSentinel ==
  last.op = "tun_get_af"
    => /\ proc = "running"
       /\ (~HeaderFamilyKnown(platform, last.before) => last.ret = u32(AF_UNKNOWN))
       /\ last.ret \in Supported \cup {u32(AF_UNKNOWN)}

(***************************************************************************)
(* Claims about netmask derivation (checked under SpecMask).               *)
(***************************************************************************)
\* C4: for each family in {IPv4, IPv6} and every prefix length 0 <= p <= max,
\* tun_make_netmask completes normally and leaves p/8 bytes of 0xFF, then
\* (0xFF00 >> (p mod 8)) & 0xFF when p mod 8 is nonzero, then zero bytes up to
\* the family's address length.
\* The mask the specification describes, byte i of the mask of prefix length p.
SpecMaskByte(p, i) ==
  IF i <= p \div 8 THEN 255
  ELSE IF i = (p \div 8) + 1 /\ p % 8 # 0 THEN (65280 \div (2 ^ (p % 8))) % 256
  ELSE 0

IsSpecMask(addr, af, p) ==
  /\ Len(addr) = (IF af = AF_INET THEN 4 ELSE 16)
  /\ \A i \in 1..Len(addr) : addr[i] = SpecMaskByte(p, i)

C4_NetmaskTotal ==
  (/\ last.op = "tun_make_netmask"
   /\ last.af \in {AF_INET, AF_INET6(platform)}
   /\ 0 <= last.prefix_len
   /\ last.prefix_len <= MaxPrefix(last.af))
    => /\ last.res.outcome = "ok"
       /\ IsSpecMask(last.res.addr, last.af, last.prefix_len)

(***************************************************************************)
(* Claims about the interface lifecycle and route injection.               *)
(***************************************************************************)
Steps(call) == {call.steps[i] : i \in 1..Len(call.steps)}

RouteCallB == platform = "B" /\ last.op = "tun_route_add"

\* C5: on platform B, when no AF_LINK address carries the interface name,
\* tun_route_add ends with the fatal "cannot find a link-layer address"
\* error, before the resolved address is read or copied into the gateway
\* block, before seq is incremented and before any message is written.
C5_NoLinkAddrFatal ==
  (RouteCallB /\ last.looked /\ last.sdlp = 0)
    => /\ last.outcome = "exited"
       /\ last.steps[Len(last.steps)] = "errx"
       /\ "memcpy(so_gate)" \notin Steps(last)
       /\ seq = last.seq0
       /\ Len(written) = last.written0

\* C6: after every successful tun_alloc, the exported tun_if_name holds the
\* kernel-assigned name, whatever buffer the caller passed.
C6_GlobalHoldsAssigned ==
  (last.op = "tun_alloc" /\ last.outcome = "returned")
    => names["global"] = last.assigned

\* C7: whenever tun_alloc, tun_dealloc or tun_route_add has returned to the
\* caller, with success or with an error, no datagram control socket and no
\* routing socket it opened is still open: the call has left open one
\* descriptor more than before, the interface handle, if it was a tun_alloc,
\* and none otherwise.
C7_SocketsClosed ==
  proc = "running"
    => /\ fds.udp = 0
       /\ fds.route = 0
       /\ last.op \in {"tun_alloc", "tun_dealloc", "tun_route_add"}
            => fds.tun = last.tun0 + (IF last.op = "tun_alloc" THEN 1 ELSE 0)

C7_Witness ==
  /\ proc = "running"
  /\ last.op = "tun_dealloc"
  /\ last.ret = -1
  /\ "SIOCIFDESTROY:-1" \in Steps(last)
  /\ fds.tun > 0
  /\ Len(written) > 0

\* C8: on platform B, for each family and every prefix length 0 <= p <= max,
\* a tun_route_add that completes hands one RTM_ADD message to the routing
\* socket; for p < max it carries the DST, GATEWAY and NETMASK blocks in that
\* order, the netmask block is the mask of p and RTF_HOST is clear; for
\* p = max it carries DST and GATEWAY only and RTF_HOST is set.
BlockKinds(msg) == [i \in 1..Len(msg.blocks) |-> msg.blocks[i].rta]

C8_RouteMessage ==
  (/\ RouteCallB
   /\ last.outcome = "returned"
   /\ last.af \in {AF_INET, AF_INET6(platform)}
   /\ 0 <= last.prefix_len
   /\ last.prefix_len <= MaxPrefix(last.af))
    => /\ last.msg.rtm_type = "RTM_ADD"
       /\ Len(written) = last.written0 + 1
       /\ written[Len(written)] = last.msg.rtm_seq
       /\ IF last.prefix_len < MaxPrefix(last.af)
          THEN /\ BlockKinds(last.msg) = <<"RTA_DST", "RTA_GATEWAY", "RTA_NETMASK">>
               /\ last.msg.rtm_addrs = {"RTA_DST", "RTA_GATEWAY", "RTA_NETMASK"}
               /\ IsSpecMask(last.msg.blocks[3].sa.addr, last.af, last.prefix_len)
               /\ "RTF_HOST" \notin last.msg.rtm_flags
          ELSE /\ BlockKinds(last.msg) = <<"RTA_DST", "RTA_GATEWAY">>
               /\ last.msg.rtm_addrs = {"RTA_DST", "RTA_GATEWAY"}
               /\ "RTF_HOST" \in last.msg.rtm_flags

C8_Witness ==
  /\ RouteCallB
  /\ last.outcome = "returned"
  /\ last.af = AF_INET6_BSD
  /\ last.prefix_len = 61
  /\ last.sdlp # 0
  /\ last.msg.blocks[3].sa.addr[8] = 248

\* C9: the rtm_seq of the messages written in one process are 1, 2, 3, ...:
\* seq starts at zero, every message carries one more than the one before,
\* and a call rejected for an unsupported family writes nothing and leaves
\* seq alone.
C9_SeqIncreasing ==
  /\ (last.op = "none" => seq = 0)
  /\ \A i \in 1..Len(written) : written[i] = i
  /\ (RouteCallB /\ last.ret = -1)
       => (seq = last.seq0 /\ Len(written) = last.written0)

C9_Witness ==
  /\ RouteCallB
  /\ last.outcome = "returned"
  /\ last.ret = 0
  /\ Len(written) >= 2

\* C10: on platform B, tun_route_add returns success only if write() took the
\* whole message, rtm_msglen bytes.
C10_WholeWrite ==
  (RouteCallB /\ last.outcome = "returned" /\ last.ret = 0)
    => last.write_len = last.msg.rtm_msglen

====
